---- MODULE Spec2Model ----
(***************************************************************************)
(* A model of GeminiAnalyzer (src/gemini_analyzer.py): the lazy            *)
(* configuration, the rate limiter, the retry loop of analyze_videos, the  *)
(* four-strategy response parser and the composite scorer.                 *)
(*                                                                         *)
(* Time is counted in tenths of a second.  Scores are integers; a          *)
(* composite score and the two contributions are kept in hundredths, which *)
(* is what round(x, 2) keeps of them.                                      *)
(***************************************************************************)
EXTENDS Integers, Sequences, FiniteSets, TLC

\* ------------------------------------------------------------------ bounds
\* longest input list handed to analyze_videos
MaxItems == 2
\* longest analysis list in a response
MaxEntries == 2

\* ------------------------------------------------------- program constants
\* self.RATE_LIMIT_DELAY = 1.2 seconds, in tenths
RATE_LIMIT_DELAY == 12
\* self.MAX_RETRIES
MAX_RETRIES == 3
\* self.WEIGHTS, in percent
W_GEMINI == 60
W_LIKE == 20
W_VIEWS == 20
\* the neutral score of _create_fallback and _normalize_score
NEUTRAL == 50

\* last_call_time = None
NoTime == -1

\* ------------------------------------------------------------ input values
\* The videos handed in by the caller: views and like_ratio are the only
\* fields the analyzer computes with.
Videos ==
    { [views |-> 100, like_ratio |-> 0],
      [views |-> 50,  like_ratio |-> 50],
      [views |-> 50,  like_ratio |-> 0] }

VideoLists == UNION { [1..n -> Videos] : n \in 0..MaxItems }

\* JSON values found under "index": an integer, true (which Python counts as
\* the int 1), a string, or no "index" member at all
IntIdx(n) == [t |-> "int", v |-> n]
NonIntIdx == [t |-> "other", v |-> 0]
BoolIdx == [t |-> "bool", v |-> 1]
MissingIdx == [t |-> "none", v |-> 0]
\* JSON values found under "score": a number, null, a string that float()
\* reads as a number, a string it does not, true, an empty array, NaN, and an
\* integer too large for a float
NumScore(n) == [t |-> "num", v |-> n]
NoScore == [t |-> "none", v |-> 0]
NumStrScore(n) == [t |-> "numstr", v |-> n]
StrScore == [t |-> "str", v |-> 0]
BoolScore == [t |-> "bool", v |-> 1]
ListScore == [t |-> "list", v |-> 0]
NanScore == [t |-> "nan", v |-> 0]
HugeScore == [t |-> "huge", v |-> 0]

\* One element of the analysis list: an object with index and score, or a
\* value that is not an object.
\* rat says how its rationale reads: "plain" words, or words with an
\* "apostrophe" among them.
ObjR(i, s, r) == [k |-> "obj", index |-> i, score |-> s, rat |-> r]
Obj(i, s) == ObjR(i, s, "plain")
NotObj == [k |-> "other", index |-> NonIntIdx, score |-> NoScore, rat |-> "plain"]

\* The entries a response is made of here: usable ones for the first two
\* videos, one that counts from the end, one past the end of every list, one
\* that is not an object.
Entries ==
    { Obj(IntIdx(0), NumScore(80)), Obj(IntIdx(1), NumScore(80)),
      Obj(IntIdx(1), NumScore(50)), Obj(IntIdx(-1), NumScore(80)),
      Obj(IntIdx(MaxItems), NumScore(80)), NotObj }

EntryLists == UNION { [1..n -> Entries] : n \in 0..MaxEntries }

\* A decoded JSON document.
\*   object : a dict; analysis is "list" (with entries), "absent" or "notlist"
\*   null, number : a scalar that supports neither `in` nor subscripting
\*   string : a JSON string; word says whether it contains "analysis"
\*   array  : a JSON array; word says whether "analysis" is one of its elements
DocObject(a, es) == [k |-> "object", analysis |-> a, entries |-> es, word |-> FALSE]
DocScalar(kind, w) == [k |-> kind, analysis |-> "absent", entries |-> <<>>, word |-> w]

ObjectDocs ==
    { DocObject("list", es) : es \in EntryLists }
    \cup { DocObject("absent", <<>>), DocObject("notlist", <<>>) }

ScalarDocs ==
    { DocScalar("null", FALSE), DocScalar("number", FALSE),
      DocScalar("string", FALSE), DocScalar("string", TRUE),
      DocScalar("array", FALSE), DocScalar("array", TRUE) }

\* The text of a response, by the way it is written:
\*   json      : the whole text is one well-formed JSON document
\*   fenced    : a well-formed document inside ```json ... ```, with prose around
\*   loose     : an object in single quotes or with trailing commas
\*   records   : prose holding separate {"index": ...} objects, no outer object
\*   truncated : an object with an analysis list, cut off inside the list
\*   prose     : no brace at all
\*   array     : the entries as a JSON array, with no object around them
Text(f, d) == [form |-> f, doc |-> d]

ResponseTexts ==
    { Text("json", d) : d \in ObjectDocs \cup ScalarDocs }
    \cup { Text("fenced", d) : d \in ScalarDocs }
    \cup { Text(f, DocObject("list", es)) :
             f \in {"fenced", "loose", "records", "truncated"},
             es \in { <<e>> : e \in Entries } }
    \cup { Text("prose", DocScalar("null", FALSE)) }

\* The inputs of the specification of _process_response alone.
\* Item lists: the runs of up to MaxItems videos taken around this ring, so
\* that a list with views 50 before views 100, one whose views do not divide
\* by their maximum, one with no views at all and one with the highest like
\* ratio are among them.
VideoRing ==
    << [views |-> 50,  like_ratio |-> 0],  [views |-> 100, like_ratio |-> 0],
       [views |-> 70,  like_ratio |-> 50], [views |-> 30,  like_ratio |-> 7],
       [views |-> 0,   like_ratio |-> 50], [views |-> 0,   like_ratio |-> 0],
       [views |-> 100, like_ratio |-> 100] >>

ParseVideoLists ==
    { [i \in 1..n |-> VideoRing[((s + i - 2) % Len(VideoRing)) + 1]] :
         s \in DOMAIN VideoRing, n \in 1..MaxItems }

\* Entries that are combined into lists: three usable ones, one that counts
\* from the end, one with a string for an index, one that is not an object
\* and one whose rationale holds an apostrophe.
CoreEntries ==
    { Obj(IntIdx(0), NumScore(80)), Obj(IntIdx(1), NumScore(80)),
      Obj(IntIdx(1), NumScore(150)),
      Obj(IntIdx(-1), NumScore(80)), Obj(NonIntIdx, NumScore(80)), NotObj,
      ObjR(IntIdx(0), NumScore(80), "apostrophe") }

\* Entries that come alone: scores outside 0..100, the other kinds of index
\* and the other kinds of score.
SingleEntries ==
    { Obj(IntIdx(0), NumScore(-10)), Obj(IntIdx(0), NumScore(150)),
      Obj(IntIdx(MaxItems), NumScore(80)), Obj(MissingIdx, NumScore(80)),
      Obj(BoolIdx, NumScore(80)) }
    \cup { Obj(IntIdx(0), sc) :
             sc \in { NoScore, NumStrScore(85), StrScore, BoolScore, ListScore,
                      NanScore, HugeScore } }

ParseEntryLists ==
    UNION { [1..n -> CoreEntries] : n \in 0..MaxEntries }
    \cup { <<e>> : e \in SingleEntries }

ParseTexts ==
    { Text(f, DocObject("list", es)) :
         f \in {"json", "fenced", "loose", "records", "truncated", "array"},
         es \in ParseEntryLists }
    \cup { Text(f, d) :
             f \in {"json", "fenced", "loose"},
             d \in { DocObject("absent", <<>>),
                     DocObject("absent", <<Obj(IntIdx(0), NumScore(80))>>),
                     DocObject("notlist", <<>>) } }

NoText == Text("none", DocScalar("null", FALSE))

\* ------------------------------------------------- the characters of a text
\* A text is read as a sequence of tokens: punctuation, the two quote
\* characters, the two halves of a ```json fence, numerals, the literals, the
\* words that matter ("analysis", "index", "score", "rationale", "results")
\* and any other word ("w").
Tok(c) == [c |-> c, v |-> 0]
Num(n) == [c |-> "num", v |-> n]

\* a string in the quote character q
Str(q, content) == <<Tok(q)>> \o content \o <<Tok(q)>>
\* "name":
Key(q, name) == Str(q, <<Tok(name)>>) \o <<Tok(":")>>

IntToks(n) == IF n >= 0 THEN <<Num(n)>> ELSE <<Tok("-"), Num(-n)>>

IndexToks(q, i) ==
    IF i.t = "int" THEN IntToks(i.v)
    ELSE IF i.t = "bool" THEN <<Tok("true")>>
    ELSE Str(q, <<Tok("w")>>)

ScoreToks(q, s) ==
    IF s.t = "num" THEN IntToks(s.v)
    ELSE IF s.t = "numstr" THEN Str(q, IntToks(s.v))
    ELSE IF s.t = "str" THEN Str(q, <<Tok("w")>>)
    ELSE IF s.t = "bool" THEN <<Tok("true")>>
    ELSE IF s.t = "list" THEN <<Tok("["), Tok("]")>>
    ELSE IF s.t = "nan" THEN <<Tok("NaN")>>
    ELSE IF s.t = "huge" THEN <<Tok("hugenum")>>
    ELSE <<Tok("null")>>

RationaleToks(q, r) ==
    IF r = "apostrophe" THEN Str(q, <<Tok("w"), Tok("sq"), Tok("w")>>)
    ELSE Str(q, <<Tok("w")>>)

\* One entry as the remote model writes it, with strings in the quote
\* character q and, when `trailing`, a comma before the closing brace:
\*   {"index": 0, "score": 85, "rationale": "..."}
EntryToks(q, trailing, e) ==
    IF e.k # "obj" THEN <<Num(5)>>
    ELSE <<Tok("{")>>
         \o (IF e.index.t = "none" THEN <<>>
             ELSE Key(q, "index") \o IndexToks(q, e.index) \o <<Tok(",")>>)
         \o Key(q, "score") \o ScoreToks(q, e.score) \o <<Tok(",")>>
         \o Key(q, "rationale") \o RationaleToks(q, e.rat)
         \o (IF trailing THEN <<Tok(",")>> ELSE <<>>)
         \o <<Tok("}")>>

\* the entries from the n-th on, with `sep` between two of them
RECURSIVE EntriesToks(_, _, _, _, _)
EntriesToks(q, trailing, es, n, sep) ==
    IF n > Len(es) THEN <<>>
    ELSE EntryToks(q, trailing, es[n])
            \o (IF n < Len(es) THEN sep ELSE <<>>)
            \o EntriesToks(q, trailing, es, n + 1, sep)

\* A document as the remote model writes it.  An object without "analysis"
\* keeps its entries under "results".
DocToks(q, trailing, d) ==
    IF d.k = "null" THEN <<Tok("null")>>
    ELSE IF d.k = "number" THEN <<Num(42)>>
    ELSE IF d.k = "string"
         THEN Str("dq", IF d.word THEN <<Tok("w"), Tok("analysis"), Tok("w")>>
                        ELSE <<Tok("w")>>)
    ELSE IF d.k = "array"
         THEN <<Tok("[")>> \o Str("dq", <<Tok(IF d.word THEN "analysis" ELSE "w")>>)
                 \o <<Tok("]")>>
    ELSE IF d.analysis = "notlist"
         THEN <<Tok("{")>> \o Key(q, "analysis") \o <<Num(1), Tok("}")>>
    ELSE <<Tok("{")>>
         \o Key(q, IF d.analysis = "list" THEN "analysis" ELSE "results")
         \o <<Tok("[")>>
         \o EntriesToks(q, trailing, d.entries, 1, <<Tok(",")>>)
         \o (IF trailing /\ d.entries # <<>> THEN <<Tok(",")>> ELSE <<>>)
         \o <<Tok("]"), Tok("}")>>

\* response.text, for each way of writing it
TextToks(txt) ==
    IF txt.form = "json" THEN DocToks("dq", FALSE, txt.doc)
    ELSE IF txt.form = "fenced"
         THEN <<Tok("w"), Tok("fence_open")>> \o DocToks("dq", FALSE, txt.doc)
                 \o <<Tok("fence_close"), Tok("w")>>
    ELSE IF txt.form = "loose" THEN DocToks("sq", TRUE, txt.doc)
    ELSE IF txt.form = "records"
         THEN <<Tok("w")>> \o EntriesToks("dq", FALSE, txt.doc.entries, 1, <<Tok("w")>>)
                 \o <<Tok("w")>>
    ELSE IF txt.form = "array"
         THEN <<Tok("[")>> \o EntriesToks("dq", FALSE, txt.doc.entries, 1, <<Tok(",")>>)
                 \o <<Tok("]")>>
    ELSE IF txt.form = "truncated"
         THEN <<Tok("{")>> \o Key("dq", "analysis") \o <<Tok("[")>>
                 \o EntriesToks("dq", FALSE, txt.doc.entries, 1, <<Tok(",")>>)
                 \o (IF txt.doc.entries # <<>> THEN <<Tok(",")>> ELSE <<>>)
                 \o <<Tok("{"), Tok("dq"), Tok("w")>>
    ELSE <<Tok("w"), Tok("w")>>

\* ----------------------------------------------------------------- json.loads
At(toks, i) == IF i >= 1 /\ i <= Len(toks) THEN toks[i].c ELSE "end"

\* the position of the first token c at or after i, 0 when there is none
RECURSIVE Find(_, _, _)
Find(toks, c, i) ==
    IF i > Len(toks) THEN 0
    ELSE IF toks[i].c = c THEN i
    ELSE Find(toks, c, i + 1)

Literals == {"null", "true", "false", "NaN", "hugenum"}

\* The position behind the JSON value that starts at i, 0 when no value
\* starts there.  Strings are in double quotes, a comma stands between two
\* members or elements and nowhere else.
RECURSIVE ValueEnd(_, _), ElementsEnd(_, _), MembersEnd(_, _)
ValueEnd(toks, i) ==
    LET c == At(toks, i)
    IN  IF c = "num" \/ c \in Literals THEN i + 1
        ELSE IF c = "-" THEN (IF At(toks, i + 1) = "num" THEN i + 2 ELSE 0)
        ELSE IF c = "dq"
             THEN (IF Find(toks, "dq", i + 1) = 0 THEN 0 ELSE Find(toks, "dq", i + 1) + 1)
        ELSE IF c = "[" THEN (IF At(toks, i + 1) = "]" THEN i + 2 ELSE ElementsEnd(toks, i + 1))
        ELSE IF c = "{" THEN (IF At(toks, i + 1) = "}" THEN i + 2 ELSE MembersEnd(toks, i + 1))
        ELSE 0

\* behind the ] of an array whose next element starts at i
ElementsEnd(toks, i) ==
    LET e == ValueEnd(toks, i)
    IN  IF e = 0 THEN 0
        ELSE IF At(toks, e) = "]" THEN e + 1
        ELSE IF At(toks, e) = "," THEN ElementsEnd(toks, e + 1)
        ELSE 0

\* behind the } of an object whose next member starts at i
MembersEnd(toks, i) ==
    LET k == IF At(toks, i) = "dq" THEN ValueEnd(toks, i) ELSE 0
        e == IF k # 0 /\ At(toks, k) = ":" THEN ValueEnd(toks, k + 1) ELSE 0
    IN  IF e = 0 THEN 0
        ELSE IF At(toks, e) = "}" THEN e + 1
        ELSE IF At(toks, e) = "," THEN MembersEnd(toks, e + 1)
        ELSE 0

\* json.loads(toks) does not raise JSONDecodeError
Decodes(toks) == toks # <<>> /\ ValueEnd(toks, 1) = Len(toks) + 1

\* The values of the array that starts at i, each as the positions of its
\* first token and of the token behind it (the array is well formed).
RECURSIVE ElementsFrom(_, _)
ElementsFrom(toks, i) ==
    IF At(toks, i) = "]" THEN <<>>
    ELSE LET e == ValueEnd(toks, i)
         IN  <<[from |-> i, to |-> e]>>
                \o (IF At(toks, e) = "," THEN ElementsFrom(toks, e + 1) ELSE <<>>)

\* The members of the object that starts at i: the key (the word between
\* the quotes, "w" when it is not a single word) and the value's positions.
RECURSIVE MembersFrom(_, _)
MembersFrom(toks, i) ==
    IF At(toks, i) = "}" THEN <<>>
    ELSE LET k == ValueEnd(toks, i)
             e == ValueEnd(toks, k + 1)
         IN  <<[key |-> IF k = i + 3 THEN toks[i + 1].c ELSE "w",
                from |-> k + 1, to |-> e]>>
                \o (IF At(toks, e) = "," THEN MembersFrom(toks, e + 1) ELSE <<>>)

\* dict.get(key): the last member with that key, or none
HasKey(members, key) == \E n \in DOMAIN members : members[n].key = key
Member(members, key) ==
    members[CHOOSE n \in DOMAIN members :
               /\ members[n].key = key
               /\ \A m \in DOMAIN members : members[m].key = key => m <= n]

SignedValue(toks, i) == IF toks[i].c = "-" THEN -toks[i + 1].v ELSE toks[i].v

\* the value decoded from toks[from .. to-1], as an "index"
IndexValue(toks, from) ==
    IF At(toks, from) \in {"num", "-"} THEN IntIdx(SignedValue(toks, from))
    ELSE IF At(toks, from) = "true" THEN BoolIdx
    ELSE NonIntIdx

\* the value decoded from toks[from .. to-1], as a "score"
ScoreValue(toks, from, to) ==
    LET c == At(toks, from)
    IN  IF c \in {"num", "-"} THEN NumScore(SignedValue(toks, from))
        ELSE IF c = "dq"
             THEN (IF \/ (to = from + 3 /\ At(toks, from + 1) = "num")
                      \/ (to = from + 4 /\ At(toks, from + 1) = "-"
                             /\ At(toks, from + 2) = "num")
                   THEN NumStrScore(SignedValue(toks, from + 1))
                   ELSE StrScore)
        ELSE IF c = "true" THEN BoolScore
        ELSE IF c = "[" THEN ListScore
        ELSE IF c = "NaN" THEN NanScore
        ELSE IF c = "hugenum" THEN HugeScore
        ELSE NoScore

RationaleValue(toks, from, to) ==
    IF \E j \in (from + 1)..(to - 2) : toks[j].c = "sq" THEN "apostrophe" ELSE "plain"

\* the element of the analysis list decoded from toks[from .. to-1]
EntryValue(toks, from, to) ==
    IF At(toks, from) # "{" THEN NotObj
    ELSE LET ms == MembersFrom(toks, from + 1)
         IN  ObjR(IF HasKey(ms, "index")
                     THEN IndexValue(toks, Member(ms, "index").from)
                     ELSE MissingIdx,
                  IF HasKey(ms, "score")
                     THEN ScoreValue(toks, Member(ms, "score").from, Member(ms, "score").to)
                     ELSE NoScore,
                  IF HasKey(ms, "rationale")
                     THEN RationaleValue(toks, Member(ms, "rationale").from,
                                         Member(ms, "rationale").to)
                     ELSE "plain")

\* json.loads(toks), for a text that decodes
Decoded(toks) ==
    LET c == At(toks, 1)
    IN  IF c \in {"num", "-", "hugenum"} THEN DocScalar("number", FALSE)
        ELSE IF c \in Literals THEN DocScalar("null", FALSE)
        ELSE IF c = "dq"
             THEN DocScalar("string", \E j \in 2..(Len(toks) - 1) : toks[j].c = "analysis")
        ELSE IF c = "["
             THEN LET es == ElementsFrom(toks, 2)
                  IN  DocScalar("array",
                         \E n \in DOMAIN es :
                            /\ es[n].to = es[n].from + 3
                            /\ At(toks, es[n].from) = "dq"
                            /\ At(toks, es[n].from + 1) = "analysis")
        ELSE LET ms == MembersFrom(toks, 2)
             IN  IF ~HasKey(ms, "analysis") THEN DocObject("absent", <<>>)
                 ELSE IF At(toks, Member(ms, "analysis").from) # "[" THEN DocObject("notlist", <<>>)
                 ELSE LET es == ElementsFrom(toks, Member(ms, "analysis").from + 1)
                      IN  DocObject("list",
                             [n \in DOMAIN es |-> EntryValue(toks, es[n].from, es[n].to)])

\* ------------------------------------------------------------- arithmetic
Max(a, b) == IF a >= b THEN a ELSE b
Min(a, b) == IF a <= b THEN a ELSE b

RECURSIVE Pow2(_)
Pow2(n) == IF n = 0 THEN 1 ELSE 2 * Pow2(n - 1)

\* round(p / q) for p >= 0, q > 0, halves to the even neighbour as Python's
\* round does
RoundDiv(p, q) ==
    LET f == p \div q
        r == p % q
    IN  IF 2 * r < q THEN f
        ELSE IF 2 * r > q THEN f + 1
        ELSE IF f % 2 = 0 THEN f ELSE f + 1

\* max(v['views'] for v in videos) if videos else 1
MaxViews(videos) ==
    IF videos = <<>> THEN 1
    ELSE CHOOSE m \in { videos[i].views : i \in DOMAIN videos } :
            \A i \in DOMAIN videos : videos[i].views <= m

\* ------------------------------------------------------- _normalize_score
\* a normalizer that does not clamp
NormalizeScoreUnclamped(raw) ==
    IF raw.t \in {"num", "numstr", "bool"} THEN raw.v
    ELSE IF raw.t = "nan" THEN 100
    ELSE NEUTRAL

\* a normalizer whose except clause returns 0
NormalizeScoreNoDefault(raw) ==
    IF raw.t \in {"num", "numstr", "bool"} THEN Max(0, Min(100, raw.v))
    ELSE IF raw.t = "nan" THEN 100
    ELSE 0

\* max(0, min(100, float(raw_score))), 50.0 when float() raises.
\* float() reads a number, a numeric string and true (1.0); min(100, nan) is
\* 100; float() raises on null, other strings, lists (TypeError, ValueError)
\* and on an integer beyond the float range (OverflowError).
_normalize_score(raw) ==
    IF raw.t \in {"num", "numstr", "bool"} THEN Max(0, Min(100, raw.v))
    ELSE IF raw.t = "nan" THEN 100
    ELSE NEUTRAL

\* ------------------------------------------------------------ the scorer
\* round(WEIGHTS['like_ratio'] * like_ratio, 2), in hundredths
LikeContribution(video) == W_LIKE * video.like_ratio

\* round(WEIGHTS['views'] * normalized_views, 2), in hundredths, where
\* normalized_views = views / max_views * 100 if max_views > 0 else 0
ViewsContribution(video, max_views) ==
    IF max_views > 0 THEN RoundDiv(W_VIEWS * 100 * video.views, max_views) ELSE 0

\* round(0.6 * gemini_score + 0.2 * like_ratio + 0.2 * normalized_views, 2),
\* a composite score that takes the views themselves for the normalized views
CompositeScoreRawViews(gemini_score, video, max_views) ==
    IF max_views > 0
    THEN W_GEMINI * gemini_score + W_LIKE * video.like_ratio + W_VIEWS * video.views
    ELSE W_GEMINI * gemini_score + W_LIKE * video.like_ratio

\* in hundredths
CompositeScore(gemini_score, video, max_views) ==
    IF max_views > 0
    THEN RoundDiv((W_GEMINI * gemini_score + W_LIKE * video.like_ratio) * max_views
                      + W_VIEWS * 100 * video.views, max_views)
    ELSE W_GEMINI * gemini_score + W_LIKE * video.like_ratio

\* One result dict: {**video, "gemini_score": ..., ...}.  pos and entry are not
\* fields of the dict.  pos records the position in the input list of the
\* video the result was built from, which the dict shows through the video's
\* own fields; entry records the position in the analysis list of the entry
\* it was built from (0 in a fallback result).
Result(pos, entry, video, gemini_score, rationale, max_views) ==
    [ pos |-> pos,
      entry |-> entry,
      video |-> video,
      gemini_score |-> gemini_score,
      gemini_analysis |-> rationale,
      composite_score |-> CompositeScore(gemini_score, video, max_views),
      like_ratio_contribution |-> LikeContribution(video),
      views_contribution |-> ViewsContribution(video, max_views) ]

\* the keys that _format_results and _create_fallback write into a result
ComputedKeys ==
    { "gemini_score", "gemini_analysis", "composite_score",
      "like_ratio_contribution", "views_contribution" }

\* a result dict made of the computed fields alone
DictComputedOnly(r) == [ k \in ComputedKeys |-> r[k] ]

\* The dict the caller gets for a result: {**video, "gemini_score": ..., ...}
\* is a new dict with every key of the video and the five computed keys; for
\* a key that occurs on both sides the later one, the computed value, stands.
Dict(r) ==
    [ k \in (DOMAIN r.video) \cup ComputedKeys |->
        IF k \in ComputedKeys THEN r[k] ELSE r.video[k] ]

FallbackText == "Could not analyze content"
EntryText == "rationale of the entry"

\* --------------------------------------------------------- _create_fallback
\* a fallback whose composite score leaves the views out
CreateFallbackWithoutViews(videos) ==
    [ i \in 1..Len(videos) |->
        [ pos |-> i,
          entry |-> 0,
          video |-> videos[i],
          gemini_score |-> NEUTRAL,
          gemini_analysis |-> FallbackText,
          composite_score |-> W_GEMINI * NEUTRAL + W_LIKE * videos[i].like_ratio,
          like_ratio_contribution |-> W_LIKE * videos[i].like_ratio,
          views_contribution |->
              IF MaxViews(videos) > 0
              THEN RoundDiv(W_VIEWS * 100 * videos[i].views, MaxViews(videos))
              ELSE 0 ] ]

\* [{**v, "gemini_score": 50, ...} for v in videos], with its own copy of the
\* three formulas (lines 223-230); values in hundredths
_create_fallback(videos) ==
    [ i \in 1..Len(videos) |->
        [ pos |-> i,
          entry |-> 0,
          video |-> videos[i],
          gemini_score |-> NEUTRAL,
          gemini_analysis |-> FallbackText,
          composite_score |->
              IF MaxViews(videos) > 0
              THEN RoundDiv((W_GEMINI * NEUTRAL + W_LIKE * videos[i].like_ratio)
                                * MaxViews(videos)
                              + W_VIEWS * 100 * videos[i].views, MaxViews(videos))
              ELSE W_GEMINI * NEUTRAL + W_LIKE * videos[i].like_ratio,
          like_ratio_contribution |-> W_LIKE * videos[i].like_ratio,
          views_contribution |->
              IF MaxViews(videos) > 0
              THEN RoundDiv(W_VIEWS * 100 * videos[i].views, MaxViews(videos))
              ELSE 0 ] ]

\* ---------------------------------------------------------------- sorted
\* Insert r behind every element whose key is >= its own: the order that
\* sorted(results, key=composite_score, reverse=True) gives, which keeps equal
\* keys in their original order.
\* a sort that puts a result in front of the results of equal score
RECURSIVE InsertDescUnstable(_, _)
InsertDescUnstable(sorted, r) ==
    IF sorted = <<>> THEN <<r>>
    ELSE IF Head(sorted).composite_score > r.composite_score
         THEN <<Head(sorted)>> \o InsertDescUnstable(Tail(sorted), r)
         ELSE <<r>> \o sorted

RECURSIVE InsertDesc(_, _)
InsertDesc(sorted, r) ==
    IF sorted = <<>> THEN <<r>>
    ELSE IF Head(sorted).composite_score >= r.composite_score
         THEN <<Head(sorted)>> \o InsertDesc(Tail(sorted), r)
         ELSE <<r>> \o sorted

RECURSIVE SortedDesc(_)
SortedDesc(results) ==
    IF results = <<>> THEN <<>>
    ELSE InsertDesc(SortedDesc(SubSeq(results, 1, Len(results) - 1)),
                    results[Len(results)])

\* --------------------------------------------------------- _format_results
\* a loop body that takes the score as it stands in the entry
EntryResultsRawScore(videos, max_views, item, n) ==
    IF item.k # "obj" THEN <<>>
    ELSE IF item.index.t \notin {"int", "bool"} \/ item.index.v >= Len(videos) THEN <<>>
    ELSE IF item.index.v < -Len(videos) THEN <<>>
    ELSE LET pos == IF item.index.v >= 0 THEN item.index.v + 1
                    ELSE Len(videos) + item.index.v + 1
         IN  << Result(pos, n, videos[pos], item.score.v, EntryText, max_views) >>

\* The body of the loop for one entry: the results it appends (one or none).
\* item.get raises AttributeError on a non-object; a non-int index or one
\* >= len(videos) raises ValueError; videos[index] raises IndexError below
\* -len(videos) and counts from the end for -len(videos)..-1.
EntryResults(videos, max_views, item, n) ==
    IF item.k # "obj" THEN <<>>
    ELSE IF item.index.t \notin {"int", "bool"} \/ item.index.v >= Len(videos) THEN <<>>
    ELSE IF item.index.v < -Len(videos) THEN <<>>
    ELSE LET pos == IF item.index.v >= 0 THEN item.index.v + 1
                    ELSE Len(videos) + item.index.v + 1
         IN  << Result(pos, n, videos[pos], _normalize_score(item.score),
                       EntryText, max_views) >>

\* for item in data["analysis"]: the results list after the entries from the
\* n-th on
RECURSIVE LoopResults(_, _, _, _)
LoopResults(videos, max_views, items, n) ==
    IF n > Len(items) THEN <<>>
    ELSE EntryResults(videos, max_views, items[n], n)
            \o LoopResults(videos, max_views, items, n + 1)

\* What a call returns: a list, or an exception that leaves the function.
Returned(list) == [raised |-> FALSE, list |-> list]
Raised == [raised |-> TRUE, list |-> <<>>]

\* _format_results without `or self._create_fallback(videos)` behind sorted()
FormatResultsNoFallback(videos, data) ==
    IF data.k \in {"null", "number"} THEN Raised
    ELSE IF data.k \in {"string", "array"}
         THEN IF data.word THEN Raised ELSE Returned(_create_fallback(videos))
    ELSE IF data.analysis # "list" THEN Returned(_create_fallback(videos))
    ELSE Returned(SortedDesc(LoopResults(videos, MaxViews(videos), data.entries, 1)))

\* `"analysis" not in data` raises TypeError on null and on a number; on a
\* string or an array it is a containment test, and when that finds the word
\* data["analysis"] raises TypeError.
_format_results(videos, data) ==
    IF data.k \in {"null", "number"} THEN Raised
    ELSE IF data.k \in {"string", "array"}
         THEN IF data.word THEN Raised ELSE Returned(_create_fallback(videos))
    ELSE IF data.analysis # "list" THEN Returned(_create_fallback(videos))
    ELSE LET results == SortedDesc(LoopResults(videos, MaxViews(videos), data.entries, 1))
         IN  IF results # <<>> THEN Returned(results)
             ELSE Returned(_create_fallback(videos))

\* -------------------------------------------------------- _process_response
\* the position of the last token c at or before i, 0 when there is none
RECURSIVE FindLast(_, _, _)
FindLast(toks, c, i) ==
    IF i < 1 THEN 0
    ELSE IF toks[i].c = c THEN i
    ELSE FindLast(toks, c, i - 1)

\* a search whose group begins at the opening fence
FenceContentWithLabel(toks) ==
    LET open == Find(toks, "fence_open", 1)
        close == IF open = 0 THEN 0 ELSE Find(toks, "fence_close", open + 1)
    IN  IF close = 0 THEN <<>> ELSE SubSeq(toks, open, close - 1)

\* Strategy 2: group(1) of ```json\n(.*?)\n``` -- what stands between the
\* first opening fence and the first closing fence behind it; empty when the
\* search finds nothing (AttributeError, caught)
FenceContent(toks) ==
    LET open == Find(toks, "fence_open", 1)
        close == IF open = 0 THEN 0 ELSE Find(toks, "fence_close", open + 1)
    IN  IF close = 0 THEN <<>> ELSE SubSeq(toks, open + 1, close - 1)

\* re.sub(r',\s*}', '}', text) and re.sub(r',\s*]', ']', text), from the
\* i-th token on
RECURSIVE WithoutTrailingCommas(_, _)
WithoutTrailingCommas(toks, i) ==
    IF i > Len(toks) THEN <<>>
    ELSE (IF toks[i].c = "," /\ At(toks, i + 1) \in {"}", "]"} THEN <<>> ELSE <<toks[i]>>)
            \o WithoutTrailingCommas(toks, i + 1)

\* Strategy 3 rebinds `text`: every ' becomes ", then the commas go
Repaired(toks) ==
    WithoutTrailingCommas(
        [i \in DOMAIN toks |-> IF toks[i].c = "sq" THEN Tok("dq") ELSE toks[i]], 1)

\* text[start:end] with start = text.find('{') and end = text.rfind('}') + 1;
\* empty when there is no { (the decode is skipped) or no } behind it
OuterObject(toks) ==
    LET start == Find(toks, "{", 1)
        end == FindLast(toks, "}", Len(toks))
    IN  IF start = 0 \/ end < start THEN <<>> ELSE SubSeq(toks, start, end)

\* "index"\s*:\s*\d+ somewhere in toks[from .. to]
MatchesPattern(toks, from, to) ==
    \E j \in from..(to - 4) :
        /\ toks[j].c = "dq" /\ toks[j + 1].c = "index" /\ toks[j + 2].c = "dq"
        /\ toks[j + 3].c = ":" /\ toks[j + 4].c = "num"

\* re.findall(r'\{[^}]*"index"\s*:\s*\d+[^}]*\}', text) from the i-th token
\* on: a match runs from a { to the first } behind it, and the next match is
\* searched behind the last one
RECURSIVE SelectMatching(_, _)
SelectMatching(toks, i) ==
    LET open == Find(toks, "{", i)
        close == IF open = 0 THEN 0 ELSE Find(toks, "}", open + 1)
    IN  IF close = 0 THEN <<>>
        ELSE IF MatchesPattern(toks, open + 1, close - 1)
             THEN <<SubSeq(toks, open, close)>> \o SelectMatching(toks, close + 1)
        ELSE SelectMatching(toks, open + 1)

\* the matches that decode, decoded, from the n-th match on
RECURSIVE DecodedMatches(_, _)
DecodedMatches(matches, n) ==
    IF n > Len(matches) THEN <<>>
    ELSE (IF Decodes(matches[n])
          THEN <<EntryValue(matches[n], 1, Len(matches[n]) + 1)>> ELSE <<>>)
            \o DecodedMatches(matches, n + 1)

\* Strategy 4 works on the text strategy 3 has repaired.
RecoveredEntries(txt) == DecodedMatches(SelectMatching(Repaired(TextToks(txt)), 1), 1)

\* Strategy 1: json.loads(text.strip())
Strategy1Decodes(txt) == Decodes(TextToks(txt))
\* Strategy 2: the ```json fence is found and its content decodes
Strategy2Decodes(txt) == Decodes(FenceContent(TextToks(txt)))
\* Strategy 3: after the quote and comma repairs, the span from the first {
\* to the last } decodes
Strategy3Decodes(txt) == Decodes(OuterObject(Repaired(TextToks(txt))))

\* The strategy that produced the value _process_response returns; 0 when
\* all four gave up and the fallback is returned.
StrategyUsed(txt) ==
    IF Strategy1Decodes(txt) THEN 1
    ELSE IF Strategy2Decodes(txt) THEN 2
    ELSE IF Strategy3Decodes(txt) THEN 3
    ELSE IF RecoveredEntries(txt) # <<>> THEN 4
    ELSE 0

\* the text that the first of strategies 1 to 3 to decode has decoded; empty
\* when none of them decodes
DecodedText(txt) ==
    IF Strategy1Decodes(txt) THEN TextToks(txt)
    ELSE IF Strategy2Decodes(txt) THEN FenceContent(TextToks(txt))
    ELSE IF Strategy3Decodes(txt) THEN OuterObject(Repaired(TextToks(txt)))
    ELSE <<>>

\* `data` of the strategy that hands it to _format_results
DataUsed(txt) ==
    IF DecodedText(txt) # <<>> THEN Decoded(DecodedText(txt))
    ELSE DocObject("list", RecoveredEntries(txt))

\* What the four strategies make of each text a response can be here: the
\* strategy that decoded it, the data it decoded, and what strategy 4 recovers
\* from the text.  (f @@ <<>> is f, kept
\* as a table of its values.)
Parsed ==
    [ t \in ResponseTexts \cup ParseTexts \cup {NoText} |->
        [used |-> StrategyUsed(t), data |-> DataUsed(t),
         recovered |-> RecoveredEntries(t)] ] @@ <<>>

\* An exception other than JSONDecodeError (and AttributeError in strategy 2)
\* leaves strategies 1 to 3 uncaught; strategy 4 catches every Exception.
\* (p is the table's entry for the text, looked up once.)
_process_response(videos, text) ==
    CHOOSE r \in { (IF p.used # 0 THEN _format_results(videos, p.data)
                                  ELSE Returned(_create_fallback(videos))) :
                      p \in {Parsed[text]} } : TRUE

\* ------------------------------------------------------------------- state
VARIABLES
    configured,     \* self.configured
    api_key,        \* whether GEMINI_API_KEY is set in the environment
    elapsed,        \* datetime.now() - self.last_call_time, capped at
                    \* RATE_LIMIT_DELAY; NoTime while last_call_time is None
    pc,             \* where analyze_videos stands
    videos,         \* the argument of the running invocation
    attempt,        \* the loop variable of the retry loop
    text,           \* response.text of the last remote call that returned
    ret,            \* the list analyze_videos returned
    trace,          \* what the running invocation has done so far
    \* execute_with_retry of src/script.py
    retry,          \* the loop variable
    response,       \* the local variable: the number of the execution whose
                    \* response it holds, 0 while it holds none
    rpc,            \* where execute_with_retry stands
    executed        \* what request.execute() did, one entry per execution

analyzer_vars == <<configured, api_key, elapsed, pc, videos, attempt, text, ret, trace>>
retry_vars == <<retry, response, rpc, executed>>
vars == <<analyzer_vars, retry_vars>>

\* execute_with_retry is not running
NotCalled == retry = 0 /\ response = 0 /\ rpc = "idle" /\ executed = <<>>


Event(e, n) == [ev |-> e, n |-> n]

\* time.sleep(d) seen from the rate limiter
After(e, d) == IF e = NoTime THEN NoTime ELSE Min(RATE_LIMIT_DELAY, e + d)

\* GeminiAnalyzer()
Init ==
    /\ configured = FALSE
    /\ api_key \in BOOLEAN
    /\ elapsed = NoTime
    /\ pc = "idle"
    /\ videos = <<>>
    /\ attempt = 0
    /\ text = NoText
    /\ ret = <<>>
    /\ trace = <<>>
    /\ NotCalled

\* The environment sets or unsets GEMINI_API_KEY between two invocations.
SetApiKey ==
    /\ pc = "idle"
    /\ api_key' = ~api_key
    /\ UNCHANGED <<configured, elapsed, pc, videos, attempt, text, ret, trace>>
    /\ UNCHANGED retry_vars

\* Time passes between two invocations.
Tick ==
    /\ pc = "idle"
    /\ elapsed # NoTime
    /\ elapsed < RATE_LIMIT_DELAY
    /\ elapsed' = After(elapsed, RATE_LIMIT_DELAY)
    /\ UNCHANGED <<configured, api_key, pc, videos, attempt, text, ret, trace>>
    /\ UNCHANGED retry_vars

\* analyze_videos without the test for an empty list
EnterNoEmptyTest ==
    /\ pc = "idle"
    /\ \E vs \in VideoLists :
          /\ videos' = vs
          /\ attempt' = 0
          /\ text' = NoText
          /\ ret' = <<>>
          /\ IF ~configured /\ ~api_key
             THEN /\ pc' = "raised"
                  /\ trace' = <<Event("configure", 0)>>
                  /\ UNCHANGED configured
             ELSE /\ configured' = TRUE
                  /\ trace' = IF configured THEN <<>> ELSE <<Event("configure", 1)>>
                  /\ pc' = "rate"
    /\ UNCHANGED <<api_key, elapsed>>
    /\ UNCHANGED retry_vars

\* analyze_videos with a configure() that sets self.configured before it
\* looks for the key
EnterConfiguredEarly ==
    /\ pc = "idle"
    /\ \E vs \in VideoLists :
          /\ videos' = vs
          /\ attempt' = 0
          /\ text' = NoText
          /\ ret' = <<>>
          /\ configured' = TRUE
          /\ IF ~configured /\ ~api_key
             THEN /\ pc' = "raised"
                  /\ trace' = <<Event("configure", 0)>>
             ELSE /\ trace' = IF configured THEN <<>> ELSE <<Event("configure", 1)>>
                  /\ pc' = IF vs = <<>> THEN "returned" ELSE "rate"
    /\ UNCHANGED <<api_key, elapsed>>
    /\ UNCHANGED retry_vars

\* analyze_videos up to the retry loop, called with one of `lists`:
\* configure() when not configured, which raises ValueError without the key;
\* then the test for an empty list.
EnterWith(lists) ==
    /\ pc = "idle"
    /\ \E vs \in lists :
          /\ videos' = vs
          /\ attempt' = 0
          /\ text' = NoText
          /\ ret' = <<>>
          /\ IF ~configured /\ ~api_key
             THEN /\ pc' = "raised"
                  /\ trace' = <<Event("configure", 0)>>
                  /\ UNCHANGED configured
             ELSE /\ configured' = TRUE
                  /\ trace' = IF configured THEN <<>> ELSE <<Event("configure", 1)>>
                  /\ pc' = IF vs = <<>> THEN "returned" ELSE "rate"
    /\ UNCHANGED <<api_key, elapsed>>
    /\ UNCHANGED retry_vars

\* analyze_videos with a configure() that runs at the start of every
\* invocation
EnterAlwaysConfigures ==
    /\ pc = "idle"
    /\ \E vs \in VideoLists :
          /\ videos' = vs
          /\ attempt' = 0
          /\ text' = NoText
          /\ ret' = <<>>
          /\ IF ~api_key
             THEN /\ pc' = "raised"
                  /\ trace' = <<Event("configure", 0)>>
                  /\ UNCHANGED configured
             ELSE /\ configured' = TRUE
                  /\ trace' = <<Event("configure", 1)>>
                  /\ pc' = IF vs = <<>> THEN "returned" ELSE "rate"
    /\ UNCHANGED <<api_key, elapsed>>
    /\ UNCHANGED retry_vars

Enter == EnterWith(VideoLists)

\* _enforce_rate_limit without the time.sleep
EnforceRateLimitNoSleep ==
    /\ pc = "rate"
    /\ trace' = Append(trace, Event("rate", 0))
    /\ elapsed' = 0
    /\ pc' = "call"
    /\ UNCHANGED <<configured, api_key, videos, attempt, text, ret>>
    /\ UNCHANGED retry_vars

\* _enforce_rate_limit: sleep for the rest of the delay, then stamp
_enforce_rate_limit ==
    /\ pc = "rate"
    /\ trace' = Append(trace,
          Event("rate", IF elapsed # NoTime /\ elapsed < RATE_LIMIT_DELAY
                        THEN RATE_LIMIT_DELAY - elapsed ELSE 0))
    /\ elapsed' = 0
    /\ pc' = "call"
    /\ UNCHANGED <<configured, api_key, videos, attempt, text, ret>>
    /\ UNCHANGED retry_vars

\* self.model.generate_content(prompt) returns a response with one of `texts`
CallReturnsWith(texts) ==
    /\ pc = "call"
    /\ \E t \in texts : text' = t
    /\ trace' = Append(trace, Event("text", attempt))
    /\ pc' = "process"
    /\ UNCHANGED <<configured, api_key, elapsed, videos, attempt, ret>>
    /\ UNCHANGED retry_vars

CallReturns == CallReturnsWith(ResponseTexts)

\* self.model.generate_content(prompt) raises
CallRaises ==
    /\ pc = "call"
    /\ trace' = Append(trace, Event("raise", attempt))
    /\ pc' = "except"
    /\ UNCHANGED <<configured, api_key, elapsed, videos, attempt, text, ret>>
    /\ UNCHANGED retry_vars

\* return self._process_response(videos, response.text), inside the try
Process ==
    /\ pc = "process"
    /\ LET r == _process_response(videos, text)
       IN  IF r.raised
           THEN /\ pc' = "except"
                /\ trace' = Append(trace, Event("error", attempt))
                /\ UNCHANGED ret
           ELSE /\ pc' = "returned"
                /\ ret' = r.list
                /\ UNCHANGED trace
    /\ UNCHANGED <<configured, api_key, elapsed, videos, attempt, text>>
    /\ UNCHANGED retry_vars

\* an except clause that raises again when the attempts are used up
ExceptPropagates ==
    /\ pc = "except"
    /\ IF attempt < MAX_RETRIES - 1
       THEN /\ elapsed' = After(elapsed, 10 * Pow2(attempt))
            /\ trace' = Append(trace, Event("sleep", 10 * Pow2(attempt)))
            /\ attempt' = attempt + 1
            /\ pc' = "rate"
       ELSE /\ pc' = "raised"
            /\ UNCHANGED <<elapsed, attempt, trace>>
    /\ UNCHANGED <<configured, api_key, videos, text, ret>>
    /\ UNCHANGED retry_vars

\* an except clause that compares with MAX_RETRIES instead of MAX_RETRIES - 1
ExceptOneMore ==
    /\ pc = "except"
    /\ IF attempt < MAX_RETRIES
       THEN /\ elapsed' = After(elapsed, 10 * Pow2(attempt))
            /\ trace' = Append(trace, Event("sleep", 10 * Pow2(attempt)))
            /\ attempt' = attempt + 1
            /\ pc' = "rate"
            /\ UNCHANGED ret
       ELSE /\ ret' = _create_fallback(videos)
            /\ trace' = Append(trace, Event("fallback", attempt))
            /\ pc' = "returned"
            /\ UNCHANGED <<elapsed, attempt>>
    /\ UNCHANGED <<configured, api_key, videos, text>>
    /\ UNCHANGED retry_vars

\* an except clause that sleeps one second before every retry
ExceptFixedBackoff ==
    /\ pc = "except"
    /\ IF attempt < MAX_RETRIES - 1
       THEN /\ elapsed' = After(elapsed, 10)
            /\ trace' = Append(trace, Event("sleep", 10))
            /\ attempt' = attempt + 1
            /\ pc' = "rate"
            /\ UNCHANGED ret
       ELSE /\ ret' = _create_fallback(videos)
            /\ trace' = Append(trace, Event("fallback", attempt))
            /\ pc' = "returned"
            /\ UNCHANGED <<elapsed, attempt>>
    /\ UNCHANGED <<configured, api_key, videos, text>>
    /\ UNCHANGED retry_vars

\* the except clause: back off and retry, or give up with the fallback
Except ==
    /\ pc = "except"
    /\ IF attempt < MAX_RETRIES - 1
       THEN /\ elapsed' = After(elapsed, 10 * Pow2(attempt))
            /\ trace' = Append(trace, Event("sleep", 10 * Pow2(attempt)))
            /\ attempt' = attempt + 1
            /\ pc' = "rate"
            /\ UNCHANGED ret
       ELSE /\ ret' = _create_fallback(videos)
            /\ trace' = Append(trace, Event("fallback", attempt))
            /\ pc' = "returned"
            /\ UNCHANGED <<elapsed, attempt>>
    /\ UNCHANGED <<configured, api_key, videos, text>>
    /\ UNCHANGED retry_vars

\* The caller takes the returned list, or the exception, and the analyzer is
\* idle again.
Return ==
    /\ pc \in {"returned", "raised"}
    /\ pc' = "idle"
    /\ videos' = <<>>
    /\ attempt' = 0
    /\ text' = NoText
    /\ ret' = <<>>
    /\ trace' = <<>>
    /\ UNCHANGED <<configured, api_key, elapsed>>
    /\ UNCHANGED retry_vars

Next ==
    \/ SetApiKey
    \/ Tick
    \/ Enter
    \/ _enforce_rate_limit
    \/ CallReturns
    \/ CallRaises
    \/ Process
    \/ Except
    \/ Return

Spec == Init /\ [][Next]_vars

\* The same analyzer, called with lists of one and the same video and
\* answered with texts made of one usable entry and two unusable ones: whether
\* and how an invocation ends depends on the length of the list, on which
\* calls raise and on whether a text yields a result, an empty list or an
\* exception, and on nothing else.
SameVideoLists == { [i \in 1..n |-> [views |-> 100, like_ratio |-> 0]] : n \in 0..MaxItems }

FairEntries ==
    { Obj(IntIdx(0), NumScore(80)), Obj(IntIdx(MaxItems), NumScore(80)), NotObj }

FairTexts ==
    { Text("json", DocObject("list", es)) :
         es \in UNION { [1..n -> FairEntries] : n \in 0..MaxEntries } }
    \cup { Text("json", d) :
             d \in ScalarDocs \cup {DocObject("absent", <<>>), DocObject("notlist", <<>>)} }
    \cup { Text("fenced", d) : d \in ScalarDocs }
    \cup { Text(f, DocObject("list", <<e>>)) :
             f \in {"fenced", "loose", "records", "truncated"}, e \in FairEntries }
    \cup { Text("prose", DocScalar("null", FALSE)) }

FairEnter == EnterWith(SameVideoLists)
FairCallReturns == CallReturnsWith(FairTexts)

FairNext ==
    \/ SetApiKey
    \/ Tick
    \/ FairEnter
    \/ _enforce_rate_limit
    \/ FairCallReturns
    \/ CallRaises
    \/ Process
    \/ Except
    \/ Return

\* A step of the running invocation.  The code is one blocking thread: a sleep
\* ends, and a remote call returns or raises.
FairStep == _enforce_rate_limit \/ FairCallReturns \/ CallRaises \/ Process \/ Except

FairSpec == Init /\ [][FairNext]_vars /\ WF_vars(FairStep)

\* _process_response alone: the analyzer is configured, the first remote call
\* of an invocation has just returned, and the response is processed.
ParseInit ==
    /\ configured = TRUE
    /\ api_key = TRUE
    /\ elapsed = 0
    /\ pc = "process"
    /\ videos \in ParseVideoLists
    /\ attempt = 0
    /\ text \in ParseTexts
    /\ ret = <<>>
    /\ trace = <<Event("rate", 0), Event("text", 0)>>
    /\ NotCalled

ParseNext ==
    \/ Process
    \/ Return

ParseSpec == ParseInit /\ [][ParseNext]_vars

\* ------------------------------------------------ items with more fields
\* Videos that carry fields the analyzer does not compute with: a title, and
\* in one of them a field called gemini_score, as an item has that was
\* analyzed before.
MergeVideos ==
    { [views |-> 100, like_ratio |-> 0, title |-> "a"],
      [views |-> 50, like_ratio |-> 50, title |-> "b", gemini_score |-> 7] }

MergeVideoLists == UNION { [1..n -> MergeVideos] : n \in 0..MaxItems }

MergeEnter == EnterWith(MergeVideoLists)

\* the analyzer of FairNext, called with lists of MergeVideos
MergeNext ==
    \/ SetApiKey
    \/ Tick
    \/ MergeEnter
    \/ _enforce_rate_limit
    \/ FairCallReturns
    \/ CallRaises
    \/ Process
    \/ Except
    \/ Return

MergeSpec == Init /\ [][MergeNext]_vars

\* ---------------------------------------------------- failing log writes
\* _log_response makes the logs directory, opens the log file and appends to
\* it; each of the three raises OSError when the disk is full or the
\* directory cannot be written, and nothing in _log_response catches it.

\* _process_response writes to the log after every strategy that did not
\* decode (lines 131, 140, 155), and _format_results does for a decoded
\* object without an analysis list (line 182)
WritesLog(txt) ==
    \/ Parsed[txt].used # 1
    \/ Parsed[txt].data.k = "object" /\ Parsed[txt].data.analysis # "list"

\* the remote call returns one of `texts` and self._log_response(response.text)
\* raises: line 112 stands inside the try, so the except clause is entered
CallReturnsLogFailsWith(texts) ==
    /\ pc = "call"
    /\ \E t \in texts : text' = t
    /\ trace' = trace \o <<Event("text", attempt), Event("log_response_fails", attempt)>>
    /\ pc' = "except"
    /\ UNCHANGED <<configured, api_key, elapsed, videos, attempt, ret>>
    /\ UNCHANGED retry_vars

\* a log write of _process_response or _format_results raises: it stands in
\* an except clause of _process_response, or in a try that catches
\* JSONDecodeError only, so the exception leaves _process_response
ProcessLogFails ==
    /\ pc = "process"
    /\ WritesLog(text)
    /\ trace' = Append(trace, Event("log_parse_fails", attempt))
    /\ pc' = "except"
    /\ UNCHANGED <<configured, api_key, elapsed, videos, attempt, text, ret>>
    /\ UNCHANGED retry_vars

\* self._log_response(..., error=error_msg) of line 116 raises inside the
\* except clause of analyze_videos: the exception leaves analyze_videos
ExceptLogFails ==
    /\ pc = "except"
    /\ trace' = Append(trace, Event("log_error_fails", attempt))
    /\ pc' = "raised"
    /\ UNCHANGED <<configured, api_key, elapsed, videos, attempt, text, ret>>
    /\ UNCHANGED retry_vars

LogCallReturnsLogFails == CallReturnsLogFailsWith(FairTexts)

\* the analyzer of FairNext with log writes that may fail
LogNext ==
    \/ SetApiKey
    \/ Tick
    \/ FairEnter
    \/ _enforce_rate_limit
    \/ FairCallReturns
    \/ LogCallReturnsLogFails
    \/ CallRaises
    \/ Process
    \/ ProcessLogFails
    \/ Except
    \/ ExceptLogFails
    \/ Return

LogSpec == Init /\ [][LogNext]_vars

\* ---------------------------------------- execute_with_retry (script.py)
\* the default of the parameter max_retries, which every caller takes
max_retries == 5

\* what the user types at "Cancel operation? (y/n): "
Answers == {"y", "n"}

\* execute_with_retry(request): the first pass of the loop begins
RetryInit ==
    /\ configured = FALSE
    /\ api_key = TRUE
    /\ elapsed = NoTime
    /\ pc = "idle"
    /\ videos = <<>>
    /\ attempt = 0
    /\ text = NoText
    /\ ret = <<>>
    /\ trace = <<>>
    /\ retry = 0
    /\ response = 0
    /\ rpc = "execute"
    /\ executed = <<>>

\* `continue`: the next pass of the loop; after the last pass the loop ends
\* and the function runs off its end, which returns None
Continue ==
    IF retry < max_retries - 1
    THEN retry' = retry + 1 /\ rpc' = "execute"
    ELSE rpc' = "returned_none" /\ UNCHANGED retry

\* the answer to the prompt of an except KeyboardInterrupt clause: anything
\* but "y" continues the loop, "y" raises the interrupt again
Prompt(answer) ==
    IF answer # "y" THEN Continue ELSE rpc' = "raised" /\ UNCHANGED retry

\* response = request.execute() returns
ExecuteReturns ==
    /\ rpc = "execute"
    /\ executed' = Append(executed, "response")
    /\ response' = Len(executed) + 1
    /\ rpc' = "min_delay"
    /\ UNCHANGED retry
    /\ UNCHANGED analyzer_vars

\* request.execute() raises HttpError with status 403 or 429: raise in the
\* last pass, else wait
ExecuteRaisesQuota ==
    /\ rpc = "execute"
    /\ executed' = Append(executed, "quota")
    /\ rpc' = IF retry = max_retries - 1 THEN "raised" ELSE "backoff"
    /\ UNCHANGED <<retry, response>>
    /\ UNCHANGED analyzer_vars

\* request.execute() raises HttpError with another status: raise
ExecuteRaisesOther ==
    /\ rpc = "execute"
    /\ executed' = Append(executed, "http_error")
    /\ rpc' = "raised"
    /\ UNCHANGED <<retry, response>>
    /\ UNCHANGED analyzer_vars

\* KeyboardInterrupt while request.execute() runs
ExecuteInterrupted ==
    /\ rpc = "execute"
    /\ executed' = Append(executed, "interrupt")
    /\ \E answer \in Answers : Prompt(answer)
    /\ UNCHANGED response
    /\ UNCHANGED analyzer_vars

\* time.sleep(min_delay) ends: return response
MinDelayEnds ==
    /\ rpc = "min_delay"
    /\ rpc' = "returned"
    /\ UNCHANGED <<retry, response, executed>>
    /\ UNCHANGED analyzer_vars

\* KeyboardInterrupt in time.sleep(min_delay), which stands in the same try
\* as request.execute()
MinDelayInterrupted ==
    /\ rpc = "min_delay"
    /\ \E answer \in Answers : Prompt(answer)
    /\ UNCHANGED <<response, executed>>
    /\ UNCHANGED analyzer_vars

\* time.sleep(wait_time) ends: the except clause ends and the loop goes on;
\* the wait is entered before the last pass only
BackoffEnds ==
    /\ rpc = "backoff"
    /\ Continue
    /\ UNCHANGED <<response, executed>>
    /\ UNCHANGED analyzer_vars

\* KeyboardInterrupt in time.sleep(wait_time)
BackoffInterrupted ==
    /\ rpc = "backoff"
    /\ \E answer \in Answers : Prompt(answer)
    /\ UNCHANGED <<response, executed>>
    /\ UNCHANGED analyzer_vars

RetryNext ==
    \/ ExecuteReturns
    \/ ExecuteRaisesQuota
    \/ ExecuteRaisesOther
    \/ ExecuteInterrupted
    \/ MinDelayEnds
    \/ MinDelayInterrupted
    \/ BackoffEnds
    \/ BackoffInterrupted

RetrySpec == RetryInit /\ [][RetryNext]_vars

\* ================================================================ claims
\* the invocation has ended with a returned list
HasReturned == pc = "returned"
\* the returned list is the fallback
IsFallback(list) == list # <<>> /\ \A i \in DOMAIN list : list[i].gemini_analysis = FallbackText
\* events of the running invocation
Count(evs) == Cardinality({ i \in DOMAIN trace : trace[i].ev \in evs })
RemoteCalls == Count({"text", "raise"})

\* C1: for a non-empty item list, the returned list is in non-increasing
\* order of composite_score on every outcome, fallback lists included.
C1_SortedOnEveryOutcome ==
    (HasReturned /\ videos # <<>>) =>
        \A i, j \in DOMAIN ret : i < j => ret[i].composite_score >= ret[j].composite_score

\* C2: the returned list is never longer than the input list.
C2_LengthAtMostInput ==
    HasReturned => Len(ret) <= Len(videos)

\* the entries of the analysis list that _format_results was handed
EntriesUsed ==
    Parsed[text].data.entries

\* an in-range integer index that names input position p
References(item, p) ==
    item.k = "obj" /\ item.index.t = "int" /\ item.index.v = p - 1

\* C3: in a result that is not a fallback, an input position has exactly one
\* result when some valid entry referenced it and none otherwise.
C3_OneResultPerReferencedItem ==
    (HasReturned /\ ret # <<>> /\ ~IsFallback(ret)) =>
        \A p \in DOMAIN videos :
            Cardinality({ i \in DOMAIN ret : ret[i].pos = p })
                = IF \E n \in DOMAIN EntriesUsed : References(EntriesUsed[n], p)
                  THEN 1 ELSE 0

\* C4 as stated: results with equal composite_score stand in the order their
\* items have in the input list.
C4_TiesInInputOrder ==
    HasReturned =>
        \A i, j \in DOMAIN ret :
            (i < j /\ ret[i].composite_score = ret[j].composite_score)
                => ret[i].pos <= ret[j].pos

\* C4 as amended: results with equal composite_score stand in the order the
\* entries they were built from have in the analysis list; in a fallback list
\* they stand in input order.
C4_TiesInEntryOrder ==
    HasReturned =>
        \A i, j \in DOMAIN ret :
            (i < j /\ ret[i].composite_score = ret[j].composite_score)
                => IF IsFallback(ret) THEN ret[i].pos < ret[j].pos
                   ELSE ret[i].entry < ret[j].entry

\* C4 witness: two results of equal score built from entries that name their
\* videos in the reverse of the input order.
C4_Witness ==
    /\ HasReturned
    /\ ~IsFallback(ret)
    /\ \E i, j \in DOMAIN ret :
          /\ i < j
          /\ ret[i].composite_score = ret[j].composite_score
          /\ ret[i].pos > ret[j].pos
          /\ ret[i].entry < ret[j].entry

\* the invocation is inside the retry loop
Running == pc \in {"rate", "call", "process", "except"}

\* C5 as stated: called with an empty list, analyze_videos returns the empty
\* list without a remote call and raises nothing, whatever the state of the
\* analyzer.
C5_EmptyAlwaysReturns ==
    (pc \in {"returned", "raised"} /\ videos = <<>>) =>
        (pc = "returned" /\ ret = <<>> /\ RemoteCalls = 0)

\* C5 as amended: called with an empty list, analyze_videos makes no remote
\* call and leaves last_call_time alone; it returns the empty list when the
\* analyzer is configured or the key is present, and raises the configuration
\* error when it is neither.
C5_EmptyList ==
    [][ (pc = "idle" /\ pc' # "idle" /\ videos' = <<>>) =>
            /\ elapsed' = elapsed
            /\ \A i \in DOMAIN trace' : trace'[i].ev = "configure"
            /\ ret' = <<>>
            /\ IF ~configured /\ ~api_key THEN pc' = "raised" ELSE pc' = "returned"
      ]_vars

\* C5 witness: an unconfigured analyzer with the key present has returned
\* from a call with the empty list.
C5_Witness ==
    /\ pc = "returned"
    /\ videos = <<>>
    /\ ret = <<>>
    /\ trace = <<Event("configure", 1)>>

C7_SequentialAttempts ==
    /\ RemoteCalls <= MAX_RETRIES
    /\ pc = "call" => (trace # <<>> /\ trace[Len(trace)].ev = "rate")
    /\ \A i \in DOMAIN trace :
          /\ trace[i].ev \in {"text", "raise"} => (i > 1 /\ trace[i - 1].ev = "rate")
          /\ trace[i].ev = "rate" =>
                \/ i = 1
                \/ i = 2 /\ trace[1].ev = "configure"
                \/ /\ i > 2
                   /\ trace[i - 1].ev = "sleep"
                   /\ trace[i - 2].ev \in {"raise", "error"}

\* C7 witness: the third remote call of an invocation has returned a text.
C7_Witness ==
    /\ RemoteCalls = MAX_RETRIES
    /\ trace[Len(trace)].ev = "text"

\* C8: once a remote call has returned a text, the invocation makes no further
\* remote call and no backoff sleep, and raises nothing.
C8_NoRetryAfterText ==
    /\ \A i, j \in DOMAIN trace :
          (i < j /\ trace[i].ev = "text") => trace[j].ev \notin {"sleep", "rate", "text", "raise"}
    /\ (pc = "raised") => Count({"text"}) = 0

\* the result fields the display code reads are all there
FullyPopulated(r) ==
    {"gemini_score", "gemini_analysis", "composite_score",
     "like_ratio_contribution", "views_contribution"} \subseteq DOMAIN r

C10_ConfigFailurePropagates ==
    [][ (pc = "idle" /\ pc' # "idle" /\ ~configured) =>
            /\ trace'[1].ev = "configure"
            /\ ~api_key =>
                  /\ pc' = "raised"
                  /\ ~configured'
                  /\ elapsed' = elapsed
                  /\ ret' = <<>>
                  /\ Len(trace') = 1
      ]_vars

\* C10 witness: an invocation has ended with the configuration error.
C10_Witness ==
    /\ pc = "raised"
    /\ ~configured
    /\ videos # <<>>

\* C11: over every sequence of invocations and retries, a remote call starts
\* at the moment _enforce_rate_limit stamps last_call_time, a stamp comes no
\* earlier than RATE_LIMIT_DELAY after the one before it, and last_call_time
\* never moves back: its age only grows, or drops to 0 when it is stamped.
C11_CallsAreSpaced ==
    [][ /\ (pc = "rate" /\ pc' = "call") =>
              /\ elapsed' = 0
              /\ trace'[Len(trace')].ev = "rate"
              /\ elapsed # NoTime =>
                    elapsed + trace'[Len(trace')].n >= RATE_LIMIT_DELAY
        /\ (pc = "call" /\ pc' # "call") =>
              (elapsed = 0 /\ trace'[Len(trace')].ev \in {"text", "raise"})
        /\ elapsed # NoTime =>
              /\ elapsed' # NoTime
              /\ elapsed' < elapsed => (pc = "rate" /\ elapsed' = 0)
      ]_vars

\* C11 witness: a new invocation right after a remote call has slept the whole
\* delay before its own first call.
C11_Witness ==
    /\ pc = "call"
    /\ attempt = 0
    /\ trace[Len(trace)] = Event("rate", RATE_LIMIT_DELAY)

\* an entry the contract lets contribute: an object whose index is an integer
\* in 0..n-1
ValidEntry(item, n) ==
    item.k = "obj" /\ item.index.t = "int" /\ item.index.v \in 0..(n - 1)

\* C12: an entry contributes a result only if its index is an integer in
\* 0..len(items)-1; an entry with a missing, non-integer, negative or too
\* large index contributes none, and when it is the only entry the returned
\* list is the fallback.
C12_OnlyInRangeIndexContributes ==
    (HasReturned /\ videos # <<>>) =>
        /\ ~IsFallback(ret) =>
              \A i \in DOMAIN ret : ValidEntry(EntriesUsed[ret[i].entry], Len(videos))
        /\ (Len(EntriesUsed) = 1 /\ ~ValidEntry(EntriesUsed[1], Len(videos))) =>
              IsFallback(ret)

\* ---- the claims about _process_response, checked under ParseSpec ----
\* the value the contract gives a numeric score
Clamped(v) == IF v < 0 THEN 0 ELSE IF v > 100 THEN 100 ELSE v

\* the list has one entry for each of n items: as many entries as items, all
\* with an in-range integer index and a numeric score, every item referenced
OneEntryPerItem(entries, n) ==
    /\ Len(entries) = n
    /\ \A k \in DOMAIN entries : ValidEntry(entries[k], n) /\ entries[k].score.t = "num"
    /\ \A p \in 1..n : \E k \in DOMAIN entries : References(entries[k], p)

\* C13: a well-formed document whose analysis list has exactly one entry per
\* item, with in-range index, is accepted by strategy 1 -- no later strategy,
\* no fallback, no retry -- and the returned list has exactly one result per
\* item, with gemini_score the entry's score clamped to [0,100].
C13_WellFormedRoundTrip ==
    ( /\ HasReturned
      /\ text.form = "json" /\ text.doc.k = "object" /\ text.doc.analysis = "list"
      /\ OneEntryPerItem(text.doc.entries, Len(videos)) ) =>
        /\ Parsed[text].used = 1
        /\ RemoteCalls = 1
        /\ ~IsFallback(ret)
        /\ Len(ret) = Len(videos)
        /\ \A p \in DOMAIN videos :
              \E i \in DOMAIN ret :
                 /\ ret[i].pos = p
                 /\ ret[i].video = videos[p]
                 /\ References(text.doc.entries[ret[i].entry], p)
                 /\ ret[i].gemini_score = Clamped(text.doc.entries[ret[i].entry].score.v)

C13_Witness ==
    /\ HasReturned
    /\ Len(videos) = 2
    /\ text = Text("json", DocObject("list",
                 <<Obj(IntIdx(1), NumScore(150)), Obj(IntIdx(0), NumScore(80))>>))
    /\ Len(ret) = 2
    /\ \E i \in DOMAIN ret : ret[i].pos = 2 /\ ret[i].gemini_score = 100

\* C14: _normalize_score never raises and returns a value in [0,100]: a
\* number below 0 gives 0, above 100 gives 100, inside the range itself, and
\* an input that cannot be converted to a number (missing or null, text that
\* is not a number, a list, an integer beyond the float range) gives 50.
C14_NormalizeScoreTotal ==
    /\ pc # "except"
    /\ (HasReturned /\ ~IsFallback(ret)) =>
          \A i \in DOMAIN ret :
             LET score == EntriesUsed[ret[i].entry].score
                 g == ret[i].gemini_score
             IN  /\ g \in 0..100
                 /\ (score.t = "num" /\ score.v < 0) => g = 0
                 /\ (score.t = "num" /\ score.v > 100) => g = 100
                 /\ (score.t = "num" /\ score.v \in 0..100) => g = score.v
                 /\ score.t \in {"none", "str", "list", "huge"} => g = 50

C14_Witness ==
    /\ HasReturned
    /\ ~IsFallback(ret)
    /\ Len(ret) = 1
    /\ EntriesUsed[ret[1].entry].score = StrScore
    /\ ret[1].gemini_score = 50

\* the sum of C15 for a result, in hundredths and times max_views
Exact(r) ==
    (W_GEMINI * r.gemini_score + W_LIKE * r.video.like_ratio) * MaxViews(videos)
        + W_VIEWS * 100 * r.video.views

\* the example of C15: views 50 and 100, like_ratio 0, both scored 80
C15_Example ==
    ( /\ HasReturned
      /\ videos = << [views |-> 50, like_ratio |-> 0], [views |-> 100, like_ratio |-> 0] >>
      /\ text.form = "json"
      /\ text.doc.entries = <<Obj(IntIdx(0), NumScore(80)), Obj(IntIdx(1), NumScore(80))>> ) =>
        /\ Len(ret) = 2
        /\ ret[1].video.views = 100 /\ ret[1].composite_score = 6800
        /\ ret[2].video.views = 50 /\ ret[2].composite_score = 5800

\* C15 as stated: composite_score is exactly 0.6*gemini_score + 0.2*like_ratio
\* + 0.2*(100*views/max_views), the last term 0 when max_views is 0; items
\* with views 100 and 50, like_ratio 0 and score 80 get 68 and 58, the item
\* with views 100 first.  (composite_score is in hundredths.)
C15_CompositeExact ==
    /\ C15_Example
    /\ (HasReturned /\ ~IsFallback(ret)) =>
          \A i \in DOMAIN ret :
             ValidEntry(EntriesUsed[ret[i].entry], Len(videos)) =>
                IF MaxViews(videos) > 0
                THEN ret[i].composite_score * MaxViews(videos) = Exact(ret[i])
                ELSE ret[i].composite_score
                        = W_GEMINI * ret[i].gemini_score + W_LIKE * ret[i].video.like_ratio

\* C15, amended: composite_score is that sum rounded to two decimal places,
\* that is, no hundredth is nearer to the sum.
C15_CompositeRounded ==
    /\ C15_Example
    /\ (HasReturned /\ ~IsFallback(ret)) =>
          \A i \in DOMAIN ret :
             ValidEntry(EntriesUsed[ret[i].entry], Len(videos)) =>
                IF MaxViews(videos) > 0
                THEN LET d == ret[i].composite_score * MaxViews(videos) - Exact(ret[i])
                     IN  2 * d <= MaxViews(videos) /\ 2 * d >= -MaxViews(videos)
                ELSE ret[i].composite_score
                        = W_GEMINI * ret[i].gemini_score + W_LIKE * ret[i].video.like_ratio

C15_Witness ==
    /\ HasReturned
    /\ ~IsFallback(ret)
    /\ MaxViews(videos) = 70
    /\ \E i \in DOMAIN ret :
          /\ EntriesUsed[ret[i].entry] = Obj(IntIdx(1), NumScore(80))
          /\ ret[i].video = [views |-> 30, like_ratio |-> 7]
          /\ ret[i].gemini_score = 80
          /\ ret[i].composite_score = 5797

\* C16: a response that wraps an analysis document in a ```json fence gives
\* the same returned list as the document alone: strategy 1 rejects it,
\* strategy 2 accepts it, and the entries are the same.
C16_FencedEqualsUnwrapped ==
    ( /\ HasReturned
      /\ text.form = "fenced" /\ text.doc.k = "object" /\ text.doc.analysis = "list" ) =>
        /\ ~Strategy1Decodes(text)
        /\ Parsed[text].used = 2
        /\ Parsed[text].data.entries = Parsed[Text("json", text.doc)].data.entries
        /\ ret = _process_response(videos, Text("json", text.doc)).list

C16_Witness ==
    /\ HasReturned
    /\ text = Text("fenced", DocObject("list",
                 <<Obj(IntIdx(1), NumScore(80)), Obj(IntIdx(0), NumScore(80))>>))
    /\ Len(ret) = 2
    /\ ~IsFallback(ret)

\* C17: a response that differs from a well-formed analysis document only by
\* single-quote string delimiters and a trailing comma before a closing
\* bracket or brace is recovered by strategy 3 and gives the same entries and
\* the same returned list as the well-formed document.
C17_LooseEqualsWellFormed ==
    ( /\ HasReturned
      /\ text.form = "loose" /\ text.doc.k = "object" /\ text.doc.analysis = "list" ) =>
        /\ Parsed[text].used = 3
        /\ Parsed[text].data.entries = Parsed[Text("json", text.doc)].data.entries
        /\ ret = _process_response(videos, Text("json", text.doc)).list

\* the results a list of entries yields for the items, before they are sorted
Yield(entries) == LoopResults(videos, MaxViews(videos), entries, 1)

\* what the strategy that decoded the text yields
OwnYield ==
    IF Parsed[text].used # 0 /\ Parsed[text].data.k = "object"
          /\ Parsed[text].data.analysis = "list"
    THEN Yield(Parsed[text].data.entries) ELSE <<>>

\* C18: the result comes from the first strategy that yields at least one
\* valid record: when one of strategies 1 to 3 decodes a document that yields
\* no record while strategy 4 yields one from the same text, the returned list
\* is built from strategy 4's records; the fallback is returned only when no
\* strategy yields a record.
C18_FirstStrategyWithRecords ==
    HasReturned =>
        /\ OwnYield # <<>> => ret = SortedDesc(OwnYield)
        /\ (Parsed[text].used \in 1..3 /\ OwnYield = <<>>
               /\ Yield(Parsed[text].recovered) # <<>>) =>
              ret = SortedDesc(Yield(Parsed[text].recovered))
        /\ IsFallback(ret) => (OwnYield = <<>> /\ Yield(Parsed[text].recovered) = <<>>)

\* a result without the position of its entry in the analysis list
Shown(r) == [pos |-> r.pos, gemini_score |-> r.gemini_score,
             composite_score |-> r.composite_score]

ValidOnly(entries) == SelectSeq(entries, LAMBDA e : ValidEntry(e, Len(videos)))

\* C19: when an analysis list mixes valid entries with invalid ones, the
\* returned list holds exactly the results of the valid entries, and there is
\* neither a retry nor a fallback.
C19_InvalidEntriesSkipped ==
    ( /\ HasReturned
      /\ text.form = "json" /\ text.doc.k = "object" /\ text.doc.analysis = "list"
      /\ \E k \in DOMAIN text.doc.entries : ValidEntry(text.doc.entries[k], Len(videos))
      /\ \E k \in DOMAIN text.doc.entries : ~ValidEntry(text.doc.entries[k], Len(videos)) ) =>
        /\ RemoteCalls = 1
        /\ ~IsFallback(ret)
        /\ [i \in DOMAIN ret |-> Shown(ret[i])]
              = [i \in DOMAIN SortedDesc(Yield(ValidOnly(text.doc.entries))) |->
                    Shown(SortedDesc(Yield(ValidOnly(text.doc.entries)))[i])]

\* the response decodes and nothing that the contract calls usable is in it:
\* no analysis list, or a list without a valid entry
NothingUsable ==
    /\ Parsed[text].used \in 1..3
    /\ \/ Parsed[text].data.k # "object"
       \/ Parsed[text].data.analysis # "list"
       \/ ValidOnly(Parsed[text].data.entries) = <<>>

\* C20: when strategy 1, 2 or 3 decodes the response and no valid entry
\* survives (empty list, or every entry invalid), or the decoded document has
\* no analysis field or one that is not a list, analyze_videos returns the
\* fallback, one neutral result per item, for a list of videos that is not
\* empty.
C20_NothingUsableGivesFallback ==
    [][ (pc = "process" /\ videos # <<>> /\ NothingUsable) =>
            /\ pc' = "returned"
            /\ IsFallback(ret')
            /\ Len(ret') = Len(videos)
            /\ \A i \in DOMAIN ret' : ret'[i].gemini_score = NEUTRAL
      ]_vars

\* ---- the claims about backoff, logging and configuration ----
\* the attempt of the n-th event failed: the remote call raised, or the
\* processing of its text did
Failed(i) == trace[i].ev \in {"raise", "error"}

LogWriteFailed ==
    /\ trace' # trace
    /\ trace' # <<>>
    /\ trace'[Len(trace')].ev \in {"log_response_fails", "log_parse_fails", "log_error_fails"}

\* C22: logging has no effect on the result: a failing log write is never
\* counted as a failed attempt (the except clause is not entered because of
\* it) and never makes analyze_videos raise, so the returned list and the
\* number of remote calls are those of the run whose log writes succeed.
C22_LoggingHasNoEffect ==
    [][ LogWriteFailed => pc' \notin {"except", "raised"} ]_vars

\* how often configure() has run in the invocation with these events
ConfigureRuns(events) == Cardinality({ i \in DOMAIN events : events[i].ev = "configure" })

\* C23: configuration is lazy and succeeds at most once per analyzer:
\* configure runs only at the start of an invocation that finds configured
\* = False, no remote call is made while configured = False, and once
\* configured is True it stays True and configure does not run again.
C23_LazyConfigureOnce ==
    [][ /\ ConfigureRuns(trace') > ConfigureRuns(trace) =>
              (~configured /\ pc = "idle" /\ trace'[1].ev = "configure"
                  /\ ConfigureRuns(trace') = 1)
        /\ (pc = "call" /\ pc' # "call") => configured
        /\ configured => configured'
      ]_vars

\* an invocation that found the analyzer configured is at its remote call
\* and has not run configure
C23_Witness ==
    /\ pc = "call"
    /\ configured
    /\ ConfigureRuns(trace) = 0

\* ---- the claims about the returned records ----
\* the invocation is running before and after the step
StepOfInvocation == pc # "idle" /\ pc' # "idle"

ScoredNeutral(p) ==
    _format_results(videos,
        DocObject("list", <<Obj(IntIdx(p - 1), NumScore(NEUTRAL))>>)).list[1]

\* C25: the fallback result for an item has the same composite_score,
\* like_ratio_contribution and views_contribution (and gemini_score) as the
\* result _format_results computes for the item from a valid entry with
\* score 50 over the same list; the two differ in the rationale text only.
C25_FallbackEqualsNeutralScore ==
    (HasReturned /\ IsFallback(ret)) =>
        /\ Len(ret) = Len(videos)
        /\ \A i \in DOMAIN ret :
              /\ ret[i].pos = i
              /\ ScoredNeutral(i).pos = i
              /\ \A k \in ComputedKeys \ {"gemini_analysis"} :
                    Dict(ret[i])[k] = Dict(ScoredNeutral(i))[k]
              /\ DOMAIN Dict(ret[i]) = DOMAIN Dict(ScoredNeutral(i))
              /\ \A k \in DOMAIN Dict(ret[i]) :
                    Dict(ret[i])[k] # Dict(ScoredNeutral(i))[k] => k = "gemini_analysis"
              /\ Dict(ret[i]).gemini_analysis # Dict(ScoredNeutral(i)).gemini_analysis

\* the fallback was returned for two videos, one of them with fewer views
\* than the other and a like ratio, so that all three terms count
C25_Witness ==
    /\ HasReturned /\ IsFallback(ret)
    /\ Len(ret) = 2
    /\ \E i \in DOMAIN ret :
          /\ ret[i].views_contribution \notin {0, 100 * W_VIEWS}
          /\ ret[i].like_ratio_contribution > 0
          /\ ret[i].composite_score = ScoredNeutral(i).composite_score

\* C26: for items with like_ratio in [0,100] and views >= 0, every returned
\* result, scored or fallback, has composite_score in [0,100],
\* like_ratio_contribution in [0,20] and views_contribution in [0,20], and
\* when max_views > 0 an item whose views equal max_views has
\* views_contribution exactly 20.  Values in hundredths.
C26_ScoresInRange ==
    ( /\ HasReturned
      /\ \A p \in DOMAIN videos :
            videos[p].like_ratio \in 0..100 /\ videos[p].views >= 0 ) =>
        \A i \in DOMAIN ret :
           /\ ret[i].composite_score \in 0..(100 * 100)
           /\ ret[i].like_ratio_contribution \in 0..(100 * W_LIKE)
           /\ ret[i].views_contribution \in 0..(100 * W_VIEWS)
           /\ (MaxViews(videos) > 0 /\ ret[i].video.views = MaxViews(videos)) =>
                 ret[i].views_contribution = 100 * W_VIEWS

\* a score above 100 for the video with the most views and a like ratio of
\* 100: every term is at its upper end
C26_Witness ==
    /\ HasReturned
    /\ ~IsFallback(ret)
    /\ \E i \in DOMAIN ret :
          /\ EntriesUsed[ret[i].entry].score = NumScore(150)
          /\ ret[i].video = [views |-> 100, like_ratio |-> 100]
          /\ ret[i].composite_score = 100 * 100
          /\ ret[i].views_contribution = 100 * W_VIEWS
          /\ ret[i].like_ratio_contribution = 100 * W_LIKE

\* ---- the claim about execute_with_retry ----
\* C27: execute_with_retry executes the request at most max_retries times
\* and ends by returning the response of a successful execution or by
\* raising, never by returning None, whatever the interleaving of 403/429
\* errors, other HTTP errors and interrupts that the user declines to turn
\* into a cancellation; a response that was received is not discarded and
\* requested again.
C27_ReturnsResponseOrRaises ==
    /\ Len(executed) <= max_retries
    /\ rpc # "returned_none"
    /\ rpc = "returned" => (response = Len(executed) /\ executed[response] = "response")
    /\ \A i \in DOMAIN executed : executed[i] = "response" => i = Len(executed)

====
